---- MODULE Spec2Model ----
(***************************************************************************)
(* The monitoring server's three routers (configs, workflows, statistics)  *)
(* as a state machine over a document store.  Every in-flight request is   *)
(* one slot of `req`; every callback of a handler is one action.           *)
(***************************************************************************)
EXTENDS Integers, Sequences, FiniteSets, TLC

VARIABLES
    mounted,    \* the router the application mounts: its traffic is explored
    store,      \* the documents of the mounted router's type in index 'mf'
    req         \* the request slots: handler locals, outbound calls, response

vars == <<mounted, store, req>>

(***************************************************************************)
(* Bounds of the exploration.                                              *)
(***************************************************************************)
MaxReqs == 2        \* requests in flight at once (configs / workflows)
MaxMetrics == 2     \* longest list of metric= query parameters
MaxHits == 1        \* largest hits.total the store reports for a metric

(***************************************************************************)
(* JavaScript values.  A value is a record of its typeof tag and payload,  *)
(* so that the value undefined and the string 'undefined' stay distinct.   *)
(***************************************************************************)
Undefined == [t |-> "undefined", v |-> <<>>]
Str(s) == [t |-> "string", v |-> s]
Arr(seq) == [t |-> "object", v |-> seq]
ErrorObj(name) == [t |-> "object", v |-> name]

typeof(x) == x.t

\* x !== y of two values
StrictNotEqual(x, y) == IF x.t # y.t THEN TRUE ELSE x.v # y.v

\* a value used as a condition: if (error)
Truthy(x) ==
    CASE x.t = "undefined" -> FALSE
      [] x.t = "string" -> x.v # ""
      [] OTHER -> TRUE

is_defined(variable) == typeof(variable) # "undefined"

\* String.prototype.slice(b, -1) with b >= 0: from index b to the last
\* character, the last excluded.
SliceToLast(s, b) == SubSeq(s, b + 1, Len(s) - 1)

\* whether `part` occurs in `s`
Contains(s, part) ==
    \E i \in 1..(Len(s) - Len(part) + 1) : SubSeq(s, i, i + Len(part) - 1) = part

(***************************************************************************)
(* The statistics router: the query builder.  Query bodies are the very    *)
(* strings the code concatenates.                                          *)
(***************************************************************************)

\* for (var key in fields) of aggregation_by and handle_response: the
\* elements visited, in order.  A string becomes a one-element list; the
\* loop body never runs for undefined.
FieldsOf(field_name) ==
    IF typeof(field_name) = "string" THEN <<field_name.v>>
    ELSE IF typeof(field_name) = "undefined" THEN <<>>
    ELSE field_name.v

date_filter(from, to) ==
    IF is_defined(from) /\ is_defined(to)
    THEN "{ " \o
             "\"range\": {" \o
                 "\"@timestamp\": {" \o
                     "\"from\": \"" \o from.v \o "\"," \o
                     "\"to\": \"" \o to.v \o "\"" \o
                 "}" \o
             "}" \o
         "}"
    ELSE ""

type_filter(type) ==
    IF is_defined(type)
    THEN "\"query\": {" \o
             "\"filtered\": {" \o
                 "\"filter\": {" \o
                     "\"type\": { \"value\": \"" \o type.v \o "\" }" \o
                 "}" \o
             "}" \o
         "},"
    ELSE ""

\* FieldClauses with the sort of Minimum_<f> repeated for Maximum_<f>
FieldClausesBothAscending(f) ==
    "\"" \o f \o "_Stats\" : {" \o
        "\"extended_stats\" : {" \o
            "\"field\" : \"" \o f \o "\"" \o
        "}" \o
    "}," \o
    "\"Minimum_" \o f \o "\": {" \o
        "\"top_hits\": {" \o
            "\"size\": 1," \o
            "\"sort\": [" \o
                "{" \o
                    "\"" \o f \o "\": {" \o
                        "\"order\": \"asc\"" \o
                    "}" \o
                "}" \o
            "]" \o
        "}" \o
    "}," \o
    "\"Maximum_" \o f \o "\": {" \o
        "\"top_hits\": {" \o
            "\"size\": 1," \o
            "\"sort\": [" \o
                "{" \o
                    "\"" \o f \o "\": {" \o
                        "\"order\": \"asc\"" \o
                    "}" \o
                "}" \o
            "]" \o
        "}" \o
    "},"

\* the text one pass of aggregation_by's loop appends for a field
FieldClauses(f) ==
    "\"" \o f \o "_Stats\" : {" \o
        "\"extended_stats\" : {" \o
            "\"field\" : \"" \o f \o "\"" \o
        "}" \o
    "}," \o
    "\"Minimum_" \o f \o "\": {" \o
        "\"top_hits\": {" \o
            "\"size\": 1," \o
            "\"sort\": [" \o
                "{" \o
                    "\"" \o f \o "\": {" \o
                        "\"order\": \"asc\"" \o
                    "}" \o
                "}" \o
            "]" \o
        "}" \o
    "}," \o
    "\"Maximum_" \o f \o "\": {" \o
        "\"top_hits\": {" \o
            "\"size\": 1," \o
            "\"sort\": [" \o
                "{" \o
                    "\"" \o f \o "\": {" \o
                        "\"order\": \"desc\"" \o
                    "}" \o
                "}" \o
            "]" \o
        "}" \o
    "},"

RECURSIVE AllClauses(_)
AllClauses(fields) ==
    IF fields = <<>> THEN ""
    ELSE FieldClauses(Head(fields)) \o AllClauses(Tail(fields))

aggregation_by(field_name, type) ==
    LET query_msg == "{" \o type_filter(type) \o
                     "\"aggs\": {" \o
                     AllClauses(FieldsOf(field_name))
    IN  SliceToLast(query_msg, 0) \o
        "}" \o
        "}"

filter_and_aggregate_by(field_name, from, to, type, host) ==
    LET typePart == IF is_defined(type)
                    THEN "{ " \o
                             "\"type\": { \"value\": \"" \o type.v \o "\" }" \o
                         "},"
                    ELSE ""
        hostPart == IF is_defined(host)
                    THEN "{ " \o
                             "\"prefix\": { \"host\": \"" \o host.v \o "\" }" \o
                         "},"
                    ELSE ""
        filter_type == typePart \o hostPart
    IN  "{" \o
            "\"aggs\": {" \o
                "\"filtered_stats\": {" \o
                    "\"filter\": {" \o
                        "\"and\": [" \o
                            filter_type \o
                            date_filter(from, to) \o
                        "]" \o
                    "}," \o
                    SliceToLast(aggregation_by(field_name, Undefined), 1) \o
                "}" \o
            "}" \o
        "}"

\* the body handle_response ends up sending: lines 268 and 280-282
QueryBody(metric, from, to, type, host) ==
    IF is_defined(from) /\ is_defined(to)
    THEN filter_and_aggregate_by(metric, from, to, type, host)
    ELSE aggregation_by(metric, type)


(***************************************************************************)
(* String.prototype.toLowerCase over the letters identifiers are made of.  *)
(***************************************************************************)
UpperLetters == "ABCDEFGHIJKLMNOPQRSTUVWXYZ"
LowerLetters == "abcdefghijklmnopqrstuvwxyz"

LowerChar(c) ==
    IF \E k \in 1..Len(UpperLetters) : SubSeq(UpperLetters, k, k) = c
    THEN LET k == CHOOSE k \in 1..Len(UpperLetters) : SubSeq(UpperLetters, k, k) = c
         IN  SubSeq(LowerLetters, k, k)
    ELSE c

RECURSIVE toLowerCase(_)
toLowerCase(s) ==
    IF s = "" THEN ""
    ELSE LowerChar(SubSeq(s, 1, 1)) \o toLowerCase(SubSeq(s, 2, Len(s)))

(***************************************************************************)
(* The requests the exploration draws from.                                *)
(***************************************************************************)
Routers == {"configs", "workflows", "statistics"}

\* metric names, hosts, timestamps and path segments of statistics requests
MetricNames == {"A", "B"}
Hosts == {"node01"}
Timestamps == {"2016-05-10T17:35:57"}
WorkflowIDs == {"MS2"}
TaskIDs == {"T1"}
ExperimentIDs == {"energy"}

\* the three statistics routes: the path segments each carries
StatRoutes ==
    { [workflowID |-> w, taskID |-> Undefined, experimentID |-> Undefined] :
        w \in WorkflowIDs }
    \cup
    { [workflowID |-> w, taskID |-> Str(t), experimentID |-> Undefined] :
        w \in WorkflowIDs, t \in TaskIDs }
    \cup
    { [workflowID |-> w, taskID |-> Str(t), experimentID |-> Str(e)] :
        w \in WorkflowIDs, t \in TaskIDs, e \in ExperimentIDs }

\* lists of between lo and hi metric names
MetricLists(lo, hi) ==
    UNION { [1..n -> MetricNames] : n \in lo..hi }

\* req.query.metric: absent, given once (a string) or repeated (an array)
MetricParams ==
    {Undefined} \cup {Str(m) : m \in MetricNames}
                \cup {Arr(l) : l \in MetricLists(1, MaxMetrics)}

Optional(S) == {Undefined} \cup {Str(x) : x \in S}

\* the errors a store call may report
StoreErrors == {ErrorObj("NoConnections"), ErrorObj("RequestTimeout")}

\* req.app.get('mf_server')
MfServer == "http://mf.excess-project.eu:3030/v1"

(***************************************************************************)
(* The store's answer to an aggregation search.  The answer names exactly  *)
(* the aggregations the body names, nested as the body nests them.         *)
(***************************************************************************)
Quoted(name) == "\"" \o name \o "\""

StatsName(m) == m \o "_Stats"
MinimumName(m) == "Minimum_" \o m
MaximumName(m) == "Maximum_" \o m

AggNames == UNION { {StatsName(m), MinimumName(m), MaximumName(m)} : m \in MetricNames }

\* the metric a result name belongs to
MetricOf(name) ==
    CHOOSE m \in MetricNames : name \in {StatsName(m), MinimumName(m), MaximumName(m)}

\* what the store computes for one named aggregation over hits[m] documents
AggResult(name, hits) ==
    LET m == MetricOf(name)
        n == hits[m]
    IN  IF name = StatsName(m)
        THEN [count |-> n]
        ELSE [hits |-> [total |-> n,
                        hits |-> IF n = 0 THEN <<>>
                                 ELSE <<[_source |-> [doc |-> name]]>>]]

\* the aggregations a query body names, and whether it nests them under
\* the filter aggregation filtered_stats
NamedIn(body) ==
    {n \in AggNames : Contains(body, Quoted(n) \o ":")
                      \/ Contains(body, Quoted(n) \o " :")}

NestedIn(body) == Contains(body, Quoted("filtered_stats") \o ":")

\* the aggregations node of the answer to a search that names `named`
SearchAggregations(named, nested, hits) ==
    LET level == [n \in named |-> AggResult(n, hits)]
    IN  IF nested THEN [filtered_stats |-> level] ELSE level

(***************************************************************************)
(* The statistics router: the response flattener (the search callback).    *)
(***************************************************************************)
\* obj[key] of an object: undefined when the object has no such property
Has(obj, key) == key \in DOMAIN obj

Obj(o) == [t |-> "object", v |-> o]

\* FlattenRoot testing `from` alone
FlattenRootFromOnly(from, to) ==
    IF is_defined(from) THEN "filtered_stats" ELSE "aggregations"

\* the node the loop descends into: lines 315-317
FlattenRoot(from, to) ==
    IF is_defined(from) /\ is_defined(to) THEN "filtered_stats" ELSE "aggregations"

\* the aggregations the loop reads for one metric: lines 310 and 315-317;
\* aggs['filtered_stats'] of an answer without that node is undefined
AggsRead(aggregations, from, to) ==
    IF FlattenRoot(from, to) = "filtered_stats"
    THEN IF Has(aggregations, "filtered_stats")
         THEN Obj(aggregations["filtered_stats"])
         ELSE Undefined
    ELSE Obj(aggregations)

\* whether the loop body throws a TypeError for metric m: a property read
\* of undefined at line 318, 325 or 326
EntryThrows(aggs, m) ==
    \/ ~is_defined(aggs)
    \/ ~Has(aggs.v, MinimumName(m))
    \/ /\ aggs.v[MinimumName(m)].hits.total # 0
       /\ \/ aggs.v[MinimumName(m)].hits.hits = <<>>
          \/ ~Has(aggs.v, MaximumName(m))
          \/ aggs.v[MaximumName(m)].hits.hits = <<>>

\* Entry with the statistics attached before the hit count is looked at, and
\* the error set on the same object
EntryStatisticsFirst(aggs, m, href) ==
    LET answer == [workflow |-> [href |-> href],
                   metric |-> m,
                   statistics |-> aggs[StatsName(m)]]
    IN  IF aggs[MinimumName(m)].hits.total = 0
        THEN [f \in DOMAIN answer \cup {"error"} |->
                 IF f = "error" THEN "response is empty for the metric"
                 ELSE answer[f]]
        ELSE [f \in DOMAIN answer \cup {"min", "max"} |->
                 IF f = "min" THEN aggs[MinimumName(m)].hits.hits[1]._source
                 ELSE IF f = "max" THEN aggs[MaximumName(m)].hits.hits[1]._source
                 ELSE answer[f]]

\* Entry with the error set on `answer`, which names workflow and metric
EntryErrorOnAnswer(aggs, m, href) ==
    IF aggs[MinimumName(m)].hits.total = 0
    THEN [workflow |-> [href |-> href],
          metric |-> m,
          error |-> "response is empty for the metric"]
    ELSE LET answer == [workflow |-> [href |-> href],
                        metric |-> m,
                        min |-> aggs[MinimumName(m)].hits.hits[1]._source,
                        max |-> aggs[MaximumName(m)].hits.hits[1]._source]
         IN  IF Has(aggs, StatsName(m))
             THEN [f \in DOMAIN answer \cup {"statistics"} |->
                      IF f = "statistics" THEN aggs[StatsName(m)] ELSE answer[f]]
             ELSE answer

\* the entry the loop body pushes for metric m: lines 309-328
Entry(aggs, m, href) ==
    IF aggs[MinimumName(m)].hits.total = 0
    THEN [error |-> "response is empty for the metric"]
    ELSE LET answer == [workflow |-> [href |-> href],
                        metric |-> m,
                        min |-> aggs[MinimumName(m)].hits.hits[1]._source,
                        max |-> aggs[MaximumName(m)].hits.hits[1]._source]
         IN  IF Has(aggs, StatsName(m))
             THEN [f \in DOMAIN answer \cup {"statistics"} |->
                      IF f = "statistics" THEN aggs[StatsName(m)] ELSE answer[f]]
             ELSE answer

\* lines 300-329: whether the loop throws before res.json is reached
FlattenThrows(aggregations, metric, from, to) ==
    LET metrics == FieldsOf(metric)
        aggs == AggsRead(aggregations, from, to)
    IN  \E k \in 1..Len(metrics) : EntryThrows(aggs, metrics[k])

\* Flatten putting each entry in front of the earlier ones
FlattenReversed(aggregations, metric, from, to, href) ==
    LET metrics == FieldsOf(metric)
        aggs == AggsRead(aggregations, from, to)
    IN  [k \in 1..Len(metrics) |->
            Entry(aggs.v, metrics[Len(metrics) + 1 - k], href)]

\* lines 300-329: the answers array the loop builds when it does not throw
Flatten(aggregations, metric, from, to, href) ==
    LET metrics == FieldsOf(metric)
        aggs == AggsRead(aggregations, from, to)
    IN  [k \in 1..Len(metrics) |-> Entry(aggs.v, metrics[k], href)]

(***************************************************************************)
(* Request slots.  A slot holds one request from its arrival to its        *)
(* completion: the inputs, the handler's locals, the outbound store calls  *)
(* issued so far (`calls`), the store errors received (`errors`), the      *)
(* response the last callback was handed (`reply`), the status set by      *)
(* res.status, the bodies passed to res.json (`sent`) and the errors       *)
(* passed to next (`nexted`).                                              *)
(***************************************************************************)
Idle == [pc |-> "idle", ep |-> "none"]

NoReply == Undefined

\* a statistics request runs alone: handle_response keeps nothing outside
\* its locals, and reads no document a configs or workflows request writes
Slots == IF mounted = "statistics" THEN {1} ELSE 1..MaxReqs

\* res.json and next hand the response over within the callback that calls
\* them, so a completed request is gone before the server handles another
\* event: the slot shows the outcome for one state and is then released
Settled == \A j \in DOMAIN req : req[j].pc \notin {"done", "threw"}

Free(i) == req[i].pc = "idle" /\ Settled

\* the slot of a completed request is released; a handler that threw has
\* answered nothing, and its slot is released with the request abandoned
Release(i) ==
    /\ req[i].pc \in {"done", "threw"}
    /\ req' = [req EXCEPT ![i] = Idle]
    /\ UNCHANGED <<mounted, store>>

\* the slot after res.json(body), the handler returning
Respond(r, body) == [r EXCEPT !.pc = "done", !.sent = Append(@, body)]

\* the slot after next(error), the handler returning
CallNext(r, error) == [r EXCEPT !.pc = "done", !.nexted = Append(@, error)]

\* the slot after an outbound store call is issued, its callback pending
Issue(r, call, pc) == [r EXCEPT !.pc = pc, !.calls = Append(@, call)]

\* the slot after a store callback is entered with `error`
Entered(r, error) ==
    IF is_defined(error)
    THEN [r EXCEPT !.errors = Append(@, [call |-> Len(r.calls), error |-> error])]
    ELSE r

(***************************************************************************)
(* The statistics router.                                                  *)
(***************************************************************************)
\* the index the three routes derive from their path segments
StatIndex(route) ==
    IF is_defined(route.taskID)
    THEN toLowerCase(route.workflowID) \o "_" \o toLowerCase(route.taskID.v)
    ELSE toLowerCase(route.workflowID) \o "_*"

MissingMetric == [error |-> [message |-> "parameter metric is missing"]]

\* StatsReceive without the return that follows res.json(error)
StatsReceiveNoReturn(i, route, metric, host, from, to) ==
    /\ mounted = "statistics"
    /\ Free(i)
    /\ LET type == route.experimentID
           index == StatIndex(route)
           r == [pc |-> "received", ep |-> "statistics",
                 workflowID |-> toLowerCase(route.workflowID),
                 index |-> index, type |-> type,
                 metric |-> metric, host |-> host, from |-> from, to |-> to,
                 built |-> aggregation_by(metric, type),
                 body |-> QueryBody(metric, from, to, type, host),
                 status |-> 200, sent |-> <<>>, nexted |-> <<>>,
                 calls |-> <<>>, errors |-> <<>>, reply |-> NoReply]
           answered == IF ~is_defined(metric) THEN Respond(r, MissingMetric) ELSE r
       IN  req' = [req EXCEPT ![i] =
                Issue(answered, [api |-> "indices.refresh", index |-> index],
                      "refresh")]
    /\ UNCHANGED <<mounted, store>>

\* handle_response up to its first outbound call: lines 260-285
StatsReceive(i, route, metric, host, from, to) ==
    /\ mounted = "statistics"
    /\ Free(i)
    /\ LET type == route.experimentID
           index == StatIndex(route)
           r == [pc |-> "received", ep |-> "statistics",
                 workflowID |-> toLowerCase(route.workflowID),
                 index |-> index, type |-> type,
                 metric |-> metric, host |-> host, from |-> from, to |-> to,
                 built |-> aggregation_by(metric, type),
                 body |-> QueryBody(metric, from, to, type, host),
                 status |-> 200, sent |-> <<>>, nexted |-> <<>>,
                 calls |-> <<>>, errors |-> <<>>, reply |-> NoReply]
       IN  req' = [req EXCEPT ![i] =
                IF ~is_defined(metric)
                THEN Respond(r, MissingMetric)
                ELSE Issue(r, [api |-> "indices.refresh", index |-> index],
                           "refresh")]
    /\ UNCHANGED <<mounted, store>>

\* StatsRefreshed without the return that follows res.json(error)
StatsRefreshedNoReturn(i, error) ==
    /\ req[i].pc = "refresh"
    /\ Settled
    /\ LET r == Entered(req[i], error)
           answered == IF Truthy(error) THEN Respond(r, error) ELSE r
       IN  req' = [req EXCEPT ![i] =
                Issue(answered, [api |-> "search", index |-> r.index,
                                 searchType |-> "count", body |-> r.body],
                      "search")]
    /\ UNCHANGED <<mounted, store>>

\* the callback of client.indices.refresh: lines 286-294
StatsRefreshed(i, error) ==
    /\ req[i].pc = "refresh"
    /\ Settled
    /\ LET r == Entered(req[i], error)
       IN  req' = [req EXCEPT ![i] =
                IF Truthy(error)
                THEN Respond(r, error)
                ELSE Issue(r, [api |-> "search", index |-> r.index,
                               searchType |-> "count", body |-> r.body],
                           "search")]
    /\ UNCHANGED <<mounted, store>>

\* the callback of client.search: lines 295-331.  The store answers the
\* query it was sent, read once (`named`, `nested`), each metric matching
\* `hits` documents of its own.
StatsSearched(i, error) ==
    /\ req[i].pc = "search"
    /\ Settled
    /\ req[i].ep = "statistics"
    /\ \E named \in {NamedIn(req[i].body)},
          nested \in {NestedIn(req[i].body)},
          hits \in [MetricNames -> 0..MaxHits] :
             LET aggregations == SearchAggregations(named, nested, hits)
                 r == IF is_defined(error) THEN Entered(req[i], error)
                      ELSE [req[i] EXCEPT
                              !.reply = Obj([aggregations |-> aggregations])]
                 href == MfServer \o "/mf" \o "/workflows/" \o r.workflowID
             IN  req' = [req EXCEPT ![i] =
                    IF Truthy(error)
                    THEN Respond(r, error)
                    ELSE IF FlattenThrows(aggregations, r.metric, r.from, r.to)
                    THEN [r EXCEPT !.pc = "threw"]
                    ELSE Respond(r, Flatten(aggregations, r.metric, r.from,
                                            r.to, href))]
    /\ UNCHANGED <<mounted, store>>

(***************************************************************************)
(* The configs and workflows routers over the documents of their type.     *)
(* The store serves a call in the step in which its callback runs.         *)
(***************************************************************************)
\* the identifier clients ask for, in two letter cases, and the identifiers
\* the store keys its documents by
RawIDs == {"N1", "n1"}
Keys == {toLowerCase(x) : x \in RawIDs} \cup {"n2"}

\* req.body of a PUT, and so the documents of each type
Bodies(router) ==
    IF router = "workflows"
    THEN {[wf_id |-> "ms2", tasks |-> <<[name |-> "T1", exec |-> "t1.sh"],
                                       [name |-> "T2", exec |-> "t2.sh"]>>],
          [wf_id |-> "ms2", author |-> "Random Guy"]}
    ELSE {[mf_plugin_CPU_perf |-> [status |-> "on"]],
          [mf_plugin_CPU_perf |-> [status |-> "off"]]}

\* the contents the store may have: some keys, each with a document
Contents(router) ==
    UNION { [S -> Bodies(router)] : S \in SUBSET Keys }

TypeOf(router) == IF router = "configs" THEN "configurations" ELSE "workflows"

DefaultSizeConfigs == 100
DefaultSizeWorkflows == 1000
DefaultSize(router) ==
    IF router = "configs" THEN DefaultSizeConfigs ELSE DefaultSizeWorkflows

NoneFound(router) ==
    IF router = "configs"
    THEN [error |-> "No configurations found."]
    ELSE [error |-> "No workflows found."]

NotFound(router, id) ==
    IF router = "configs"
    THEN [error |-> "Configuration for the platform'" \o id \o "' is not found."]
    ELSE [error |-> "Workflow with the ID '" \o id \o "' not found."]

NotStored(router) ==
    IF router = "configs"
    THEN [error |-> "Could not change the configuration."]
    ELSE [error |-> "Could not create the workflow."]

Href(router, id) ==
    IF router = "configs"
    THEN [href |-> MfServer \o "/mf/configs/" \o id]
    ELSE [href |-> MfServer \o "/mf/workflows/" \o id]

\* the fresh slot of a configs or workflows handler: `raw` is the path
\* segment as requested and `id` its lower-casing, `body` the request body,
\* `size` the local of router.get('/'); `present` remembers, for a list
\* request, the identifiers stored when the request was received
Slot(ep, raw, body, size) ==
    [pc |-> "received", ep |-> ep, raw |-> raw, id |-> toLowerCase(raw),
     body |-> body, size |-> size, present |-> {},
     status |-> 200, sent |-> <<>>, nexted |-> <<>>,
     calls |-> <<>>, errors |-> <<>>, reply |-> NoReply]

NoBody == <<>>

\* the item get_details stores for a hit's _source: a copy, with the tasks
\* of a workflow projected to their names (strings, where the stored tasks
\* are objects)
Item(router, source) ==
    IF router = "workflows" /\ Has(source, "tasks")
    THEN [source EXCEPT !.tasks = [k \in 1..Len(source.tasks) |->
                                      Str(source.tasks[k].name)]]
    ELSE source

\* get_details over the hits of a search, given as the set of their _id
get_details(router, ids, contents) ==
    [id \in ids |-> Item(router, contents[id])]

\* router.get('/') up to the count search: configs.js 56-65, workflows.js 40-49
ListReceive(i) ==
    /\ mounted \in {"configs", "workflows"}
    /\ Free(i)
    /\ req' = [req EXCEPT ![i] =
            Issue([Slot("list", "", NoBody, DefaultSize(mounted))
                       EXCEPT !.present = DOMAIN store],
                  [api |-> "search", type |-> TypeOf(mounted),
                   searchType |-> "count"],
                  "count")]
    /\ UNCHANGED <<mounted, store>>

\* ListCounted without the test of size against 0
ListCountedNoEmptyCheck(i, error) ==
    /\ req[i].pc = "count"
    /\ Settled
    /\ LET r == Entered(req[i], error)
           total == Cardinality(DOMAIN store)
           response == Obj([hits |-> [total |-> total, hits |-> {}]])
           sized == [r EXCEPT !.size = response.v.hits.total, !.reply = response]
       IN  req' = [req EXCEPT ![i] =
                IF Truthy(error)
                THEN CallNext([r EXCEPT !.status = 500], error)
                ELSE Issue(sized,
                           [api |-> "search", type |-> TypeOf(mounted),
                            size |-> sized.size],
                           "search")]
    /\ UNCHANGED <<mounted, store>>

\* the callback of the count search: configs.js 65-84, workflows.js 49-68.
\* A search that succeeds answers with hits, so `size` becomes hits.total.
ListCounted(i, error) ==
    /\ req[i].pc = "count"
    /\ Settled
    /\ LET r == Entered(req[i], error)
           total == Cardinality(DOMAIN store)
           response == Obj([hits |-> [total |-> total, hits |-> {}]])
           sized == [r EXCEPT !.size = response.v.hits.total, !.reply = response]
       IN  req' = [req EXCEPT ![i] =
                IF Truthy(error)
                THEN CallNext([r EXCEPT !.status = 500], error)
                ELSE IF sized.size = 0
                THEN Respond([sized EXCEPT !.status = 404], NoneFound(mounted))
                ELSE Issue(sized,
                           [api |-> "search", type |-> TypeOf(mounted),
                            size |-> sized.size],
                           "search")]
    /\ UNCHANGED <<mounted, store>>

\* the callback of the sized search: configs.js 84-94, workflows.js 68-78.
\* `ids` are the hits: as many documents as there are, `size` at most.
ListSearched(i, error, ids) ==
    /\ req[i].pc = "search"
    /\ Settled
    /\ req[i].ep = "list"
    /\ ids \subseteq DOMAIN store
    /\ Cardinality(ids) =
         IF Cardinality(DOMAIN store) < req[i].size
         THEN Cardinality(DOMAIN store) ELSE req[i].size
    /\ LET r == Entered(req[i], error)
           response == Obj([hits |-> [total |-> Cardinality(DOMAIN store),
                                      hits |-> ids]])
       IN  req' = [req EXCEPT ![i] =
                IF Truthy(error)
                THEN CallNext([r EXCEPT !.status = 500], error)
                ELSE Respond([r EXCEPT !.reply = response],
                             get_details(mounted, response.v.hits.hits, store))]
    /\ UNCHANGED <<mounted, store>>

\* router.get('/:platformID'), router.get('/:id') up to client.get:
\* configs.js 156-166, workflows.js 151-160
GetReceive(i, raw) ==
    /\ mounted \in {"configs", "workflows"}
    /\ Free(i)
    /\ LET id == toLowerCase(raw)
       IN  req' = [req EXCEPT ![i] =
                Issue(Slot("get", raw, NoBody, DefaultSizeConfigs),
                      [api |-> "get", type |-> TypeOf(mounted), id |-> id],
                      "get")]
    /\ UNCHANGED <<mounted, store>>

\* what client.get hands its callback as `response`: the document found,
\* {found: false} for an absent identifier, and for a failed call either the
\* store's error body or nothing at all
GetResponses(id) ==
    IF id \in DOMAIN store
    THEN {[error |-> Undefined, response |-> Obj([found |-> TRUE, _source |-> store[id]])]}
    ELSE {[error |-> ErrorObj("NotFound"), response |-> Obj([found |-> FALSE])]}

GetFailures ==
    { [error |-> e, response |-> Obj([error |-> e.v])] : e \in StoreErrors }
    \cup { [error |-> e, response |-> Undefined] : e \in StoreErrors }

\* the callback of client.get: configs.js 166-173, workflows.js 160-167
GetReturned(i, reply) ==
    /\ req[i].pc = "get"
    /\ Settled
    /\ LET response == reply.response
           r == [(IF reply \in GetFailures THEN Entered(req[i], reply.error)
                  ELSE req[i]) EXCEPT !.reply = response]
       IN  req' = [req EXCEPT ![i] =
                IF ~is_defined(response)
                THEN [r EXCEPT !.pc = "threw"]
                ELSE IF Has(response.v, "found") /\ response.v.found
                THEN Respond(r, response.v._source)
                ELSE Respond(r, NotFound(mounted, r.id))]
    /\ UNCHANGED <<mounted, store>>

\* router.put('/:platformID'), router.put('/:id') up to client.index:
\* configs.js 226-237, workflows.js 225-236
PutReceive(i, raw, body) ==
    /\ mounted \in {"configs", "workflows"}
    /\ Free(i)
    /\ LET id == toLowerCase(raw)
       IN  req' = [req EXCEPT ![i] =
                Issue(Slot("put", raw, body, DefaultSizeConfigs),
                      [api |-> "index", type |-> TypeOf(mounted), id |-> id,
                       body |-> body],
                      "index")]
    /\ UNCHANGED <<mounted, store>>

\* index(id, body) that leaves a document already stored as it is
IndexedUnlessPresent(contents, id, body) ==
    [k \in DOMAIN contents \cup {id} |->
        IF k \in DOMAIN contents THEN contents[k] ELSE body]

\* the store after index(id, body)
Indexed(contents, id, body) ==
    [k \in DOMAIN contents \cup {id} |-> IF k = id THEN body ELSE contents[k]]

\* the test of the index callback: configs.js 238, workflows.js 237
IndexSucceeded(error) == StrictNotEqual(error, Str("undefined"))

\* the callback of client.index: configs.js 237-245, workflows.js 236-244.
\* A call that reports an error has stored the document (`applied`) or not.
PutIndexed(i, error, applied) ==
    /\ req[i].pc = "index"
    /\ Settled
    /\ is_defined(error) \/ applied
    /\ LET r == Entered(req[i], error)
       IN  req' = [req EXCEPT ![i] =
                IF IndexSucceeded(error)
                THEN Respond(r, Href(mounted, r.id))
                ELSE Respond([r EXCEPT !.status = 500], NotStored(mounted))]
    /\ store' = IF applied THEN Indexed(store, req[i].id, req[i].body) ELSE store
    /\ UNCHANGED mounted

(***************************************************************************)
(* The specification.                                                      *)
(***************************************************************************)
Init ==
    /\ mounted \in Routers
    /\ store \in IF mounted = "statistics" THEN {<<>>} ELSE Contents(mounted)
    /\ req = [i \in 1..MaxReqs |-> Idle]

MaybeError == {Undefined} \cup StoreErrors

Next ==
    \/ \E i \in Slots, route \in StatRoutes, metric \in MetricParams,
          host \in Optional(Hosts), from \in Optional(Timestamps),
          to \in Optional(Timestamps) :
            StatsReceive(i, route, metric, host, from, to)
    \/ \E i \in Slots, error \in MaybeError : StatsRefreshed(i, error)
    \/ \E i \in Slots, error \in MaybeError : StatsSearched(i, error)
    \/ \E i \in Slots : ListReceive(i)
    \/ \E i \in Slots, error \in MaybeError : ListCounted(i, error)
    \/ \E i \in Slots, error \in MaybeError, ids \in SUBSET Keys :
            ListSearched(i, error, ids)
    \/ \E i \in Slots, raw \in RawIDs : GetReceive(i, raw)
    \/ \E i \in Slots :
            /\ req[i].pc = "get"
            /\ \E reply \in GetResponses(req[i].id) \cup GetFailures :
                    GetReturned(i, reply)
    \/ \E i \in Slots, raw \in RawIDs, body \in Bodies(mounted) :
            PutReceive(i, raw, body)
    \/ \E i \in Slots, error \in MaybeError, applied \in BOOLEAN :
            PutIndexed(i, error, applied)
    \/ \E i \in Slots : Release(i)

Spec == Init /\ [][Next]_vars

(***************************************************************************)
(* Properties.                                                             *)
(***************************************************************************)
Requests == {req[i] : i \in DOMAIN req}

\* a statistics request whose search succeeded and whose answers were sent
StatsAnswered(r) ==
    /\ r.ep = "statistics"
    /\ r.pc = "done"
    /\ is_defined(r.reply)

\* the metrics of a request as the client gave them
Requested(r) ==
    IF typeof(r.metric) = "string" THEN <<r.metric.v>> ELSE r.metric.v

\* the store's result named `name` in the reply of an answered request
ReplyNode(r, name) ==
    LET a == r.reply.v.aggregations
    IN  IF Has(a, "filtered_stats") THEN a["filtered_stats"][name] ELSE a[name]

HitCount(r, m) == ReplyNode(r, MinimumName(m)).hits.total

TimeRanged(r) == is_defined(r.from) /\ is_defined(r.to)

\* the body of the search call a request has issued
SearchBody(r) == r.calls[2].body

\* C1: in every statistics response, the entry for a requested metric
\* carries statistics, min and max exactly when the Minimum_<m> hit count
\* is non-zero and carries error exactly when it is zero, never both.
C1_EntryEitherStatisticsOrError ==
    \A r \in Requests :
        StatsAnswered(r) =>
            \A k \in 1..Len(Requested(r)) :
                LET entry == r.sent[1][k]
                    some == HitCount(r, Requested(r)[k]) # 0
                IN  /\ \A f \in {"statistics", "min", "max"} :
                           Has(entry, f) <=> some
                    /\ Has(entry, "error") <=> ~some
                    /\ ~(Has(entry, "error")
                         /\ DOMAIN entry \cap {"statistics", "min", "max"} # {})

\* a response with an error entry for one metric and statistics for another
C1_Witness ==
    \E r \in Requests :
        /\ StatsAnswered(r)
        /\ Len(Requested(r)) = 2
        /\ HitCount(r, Requested(r)[1]) = 0
        /\ HitCount(r, Requested(r)[2]) # 0
        /\ Has(r.sent[1][1], "error")
        /\ Has(r.sent[1][2], "statistics")

\* whether a query body restricts documents to hosts with a prefix through
\* the top-level query filter
TopLevelHostFilter(body, host) ==
    /\ Contains(body, "{\"query\": {\"filtered\": {\"filter\": {")
    /\ Contains(body, "\"prefix\": { \"host\": \"" \o host \o "\" }")
    /\ ~Contains(body, Quoted("filtered_stats"))

\* C2: a statistics request with a host and without a time range sends a
\* query body that restricts documents to hosts with that prefix through
\* the top-level query filter, not through filtered_stats.
C2_HostFilterWithoutTimeRange ==
    \A r \in Requests :
        (/\ r.ep = "statistics"
         /\ Len(r.calls) = 2
         /\ is_defined(r.host)
         /\ ~TimeRanged(r))
        => TopLevelHostFilter(SearchBody(r), r.host.v)

\* C3: builder and flattener take the same path: with from and to both
\* supplied the body nests the aggregations under filtered_stats with the
\* time filter and the flattener reads filtered_stats; otherwise the body
\* has neither and the flattener reads the root, and finds every metric.
C3_BuilderAndFlattenerAgree ==
    \A r \in Requests :
        /\ (r.ep = "statistics" /\ Len(r.calls) = 2) =>
              /\ Contains(SearchBody(r), Quoted("filtered_stats")) <=> TimeRanged(r)
              /\ Contains(SearchBody(r), Quoted("range")) <=> TimeRanged(r)
        /\ (r.ep = "statistics" /\ r.pc \in {"done", "threw"} /\ is_defined(r.reply)) =>
              /\ r.pc = "done"
              /\ Has(r.reply.v.aggregations, "filtered_stats") <=> TimeRanged(r)
              /\ (FlattenRoot(r.from, r.to) = "filtered_stats") <=> TimeRanged(r)

\* answers sent for a request that supplied only one of from and to
C3_Witness ==
    \E r \in Requests :
        /\ StatsAnswered(r)
        /\ is_defined(r.from) /\ ~is_defined(r.to)
        /\ ~Contains(SearchBody(r), Quoted("filtered_stats"))
        /\ Len(r.sent[1]) = Len(Requested(r))

\* a request whose handler has finished, with a response or without
Finished(r) == r.pc \in {"done", "threw"}

\* C4: a request one of whose store calls failed is answered with status
\* 500 and the store's error, and issues no call after the failed one.
C4_StoreFailureAnswered500 ==
    \A r \in Requests :
        (Finished(r) /\ r.errors # <<>>) =>
            /\ r.pc = "done"
            /\ r.status = 500
            /\ r.sent = <<r.errors[1].error>> \/ r.nexted = <<r.errors[1].error>>
            /\ Len(r.errors) = 1
            /\ Len(r.calls) = r.errors[1].call

\* C5: a PUT is answered with the href of the stored resource when the
\* index call succeeded, and with status 500 and an error body, never an
\* href, when the index call reported an error.
C5_PutHrefOnlyWhenStored ==
    \A r \in Requests :
        (r.ep = "put" /\ r.pc = "done") =>
            IF r.errors = <<>>
            THEN /\ Len(r.sent) = 1
                 /\ DOMAIN r.sent[1] = {"href"}
                 /\ r.status = 200
            ELSE /\ Len(r.sent) = 1
                 /\ DOMAIN r.sent[1] = {"error"}
                 /\ r.status = 500

\* C6: a GET by identifier is answered with status 404 and {error: message}
\* when the store has no such identifier, and with the stored document when
\* it has.
C6_GetAbsentIs404 ==
    \A r \in Requests :
        (r.ep = "get" /\ r.pc = "done" /\ r.errors = <<>>) =>
            IF r.reply.v.found
            THEN /\ Len(r.sent) = 1
                 /\ r.sent[1] = r.reply.v._source
            ELSE /\ Len(r.sent) = 1
                 /\ DOMAIN r.sent[1] = {"error"}
                 /\ r.status = 404

\* C7: the answers array has one entry per requested metric, in request
\* order, duplicates repeated; a single string metric gives one entry.
C7_OneEntryPerMetricInOrder ==
    \A r \in Requests :
        StatsAnswered(r) =>
            /\ Len(r.sent) = 1
            /\ Len(r.sent[1]) = Len(Requested(r))
            /\ typeof(r.metric) = "string" => Len(r.sent[1]) = 1
            /\ \A k \in 1..Len(Requested(r)) :
                   LET m == Requested(r)[k]
                       entry == r.sent[1][k]
                   IN  IF HitCount(r, m) = 0
                       THEN Has(entry, "error")
                       ELSE /\ entry.metric = m
                            /\ entry.statistics = ReplyNode(r, StatsName(m))
                            /\ entry.min = ReplyNode(r, MinimumName(m)).hits.hits[1]._source
                            /\ entry.max = ReplyNode(r, MaximumName(m)).hits.hits[1]._source

\* answers for a metric requested twice: two entries, both for that metric
C7_Witness ==
    \E r \in Requests :
        /\ StatsAnswered(r)
        /\ Len(Requested(r)) = 2
        /\ Requested(r)[1] = Requested(r)[2]
        /\ Len(r.sent[1]) = 2
        /\ Has(r.sent[1][1], "metric") /\ Has(r.sent[1][2], "metric")
        /\ r.sent[1][1].metric = r.sent[1][2].metric

\* the APIs of the store calls a request has issued, in order
Apis(r) == [k \in 1..Len(r.calls) |-> r.calls[k].api]

\* no error was reported for the k-th call of the request
CallSucceeded(r, k) == \A e \in 1..Len(r.errors) : r.errors[e].call # k

\* the calls of a statistics request: one refresh, then at most one search,
\* issued only after the refresh returned without error
StatsCallsBounded(r) ==
    /\ Apis(r) \in {<<>>, <<"indices.refresh">>, <<"indices.refresh", "search">>}
    /\ Len(r.calls) = 2 => CallSucceeded(r, 1)

\* C8 as stated: a statistics request issues at most one refresh followed
\* by at most one search, the search only after the refresh returned
\* without error; every configs or workflows request issues exactly one
\* store call.
C8_OneCallPerResourceRequest ==
    \A r \in Requests :
        /\ r.ep = "statistics" => StatsCallsBounded(r)
        /\ r.ep \in {"list", "get", "put"} => Len(r.calls) = 1

\* C8, amended: as C8 for statistics, get by identifier (one get) and put
\* (one index); a list request issues one count search followed by at most
\* one sized search, issued only after the count search returned without
\* error and with a non-zero total, and asking for that many documents.
C8_BoundedCallSequence ==
    \A r \in Requests :
        /\ r.ep = "statistics" => StatsCallsBounded(r)
        /\ r.ep = "get" => Apis(r) = <<"get">>
        /\ r.ep = "put" => Apis(r) = <<"index">>
        /\ r.ep = "list" =>
              /\ Apis(r) \in {<<"search">>, <<"search", "search">>}
              /\ r.calls[1].searchType = "count"
              /\ Len(r.calls) = 2 =>
                    /\ CallSucceeded(r, 1)
                    /\ r.size # 0
                    /\ r.calls[2].size = r.size

\* a list request answered after its count search and its sized search
C8_Witness ==
    \E r \in Requests :
        /\ r.ep = "list"
        /\ r.pc = "done"
        /\ Len(r.calls) = 2
        /\ Len(r.sent) = 1

\* C9: a statistics request without metric is answered with the embedded
\* error object at status 200, and issues no store call.
C9_MissingMetricAnsweredWithoutCalls ==
    \A r \in Requests :
        (r.ep = "statistics" /\ ~is_defined(r.metric)) =>
            /\ r.pc = "done"
            /\ r.sent = <<[error |-> [message |-> "parameter metric is missing"]]>>
            /\ r.status = 200
            /\ r.calls = <<>>
            /\ r.nexted = <<>>

\* a statistics request without metric, answered
C9_Witness ==
    \E r \in Requests :
        /\ r.ep = "statistics"
        /\ ~is_defined(r.metric)
        /\ r.pc = "done"
        /\ Len(r.sent) = 1

\* the failure the builder is to report for an empty metric list
InvalidQuery == "InvalidQuery"

\* C10: the query builder, invoked with an empty or absent metric list,
\* fails with InvalidQuery and returns no query body.
C10_EmptyMetricListRejected ==
    \A r \in Requests :
        (r.ep = "statistics" /\ FieldsOf(r.metric) = <<>>) =>
            r.built = InvalidQuery

\* the number of places at which `part` occurs in `s`
Occurrences(s, part) ==
    Cardinality({i \in 1..(Len(s) - Len(part) + 1) :
                    SubSeq(s, i, i + Len(part) - 1) = part})

\* the number of places of a list that hold m
Times(list, m) == Cardinality({k \in 1..Len(list) : list[k] = m})

\* a statistics request with metrics and no filter: no experiment type, no
\* host, no time range
Unfiltered(r) ==
    /\ r.ep = "statistics"
    /\ is_defined(r.metric)
    /\ ~is_defined(r.type) /\ ~is_defined(r.host)
    /\ ~is_defined(r.from) /\ ~is_defined(r.to)

\* the three clauses of a query body for metric m, as text
StatsClause(m) ==
    "\"" \o m \o "_Stats\" : {\"extended_stats\" : {\"field\" : \"" \o m \o "\"}}"
TopHitClause(name, m, order) ==
    "\"" \o name \o "\": {\"top_hits\": {\"size\": 1,\"sort\": [{\"" \o m
        \o "\": {\"order\": \"" \o order \o "\"}}]}}"

\* the body holds n clauses of each of the three kinds for m, under the
\* three names, and no other clause under those names
HoldsClauses(body, m, n) ==
    /\ Occurrences(body, StatsClause(m)) = n
    /\ Occurrences(body, "\"" \o m \o "_Stats\"") = n
    /\ Occurrences(body, TopHitClause("Minimum_" \o m, m, "asc")) = n
    /\ Occurrences(body, "\"Minimum_" \o m \o "\"") = n
    /\ Occurrences(body, TopHitClause("Maximum_" \o m, m, "desc")) = n
    /\ Occurrences(body, "\"Maximum_" \o m \o "\"") = n

\* the flattener found, under the three names, what the store computed for
\* each metric of an answered request
LookedUp(r) ==
    \A k \in 1..Len(Requested(r)) :
        LET m == Requested(r)[k]
            a == r.reply.v.aggregations
        IN  /\ Has(a, m \o "_Stats") /\ Has(a, "Minimum_" \o m)
            /\ Has(a, "Maximum_" \o m)
            /\ a["Minimum_" \o m].hits.total # 0 =>
                  /\ Has(r.sent[1][k], "statistics")
                  /\ r.sent[1][k].statistics = a[m \o "_Stats"]
                  /\ r.sent[1][k].min = a["Minimum_" \o m].hits.hits[1]._source
                  /\ r.sent[1][k].max = a["Maximum_" \o m].hits.hits[1]._source

\* C11 as stated: for a non-empty metric list with no filters the body
\* holds, for each metric m, exactly one extended-statistics clause named
\* <m>_Stats, one ascending top-1 clause Minimum_<m> and one descending
\* top-1 clause Maximum_<m>, the names the flattener looks up.
C11_OneClausePerMetric ==
    \A r \in Requests :
        /\ Unfiltered(r) =>
              \A k \in 1..Len(Requested(r)) : HoldsClauses(r.body, Requested(r)[k], 1)
        /\ (Unfiltered(r) /\ Finished(r) /\ is_defined(r.reply)) =>
              r.pc = "done" /\ LookedUp(r)

\* C11, amended: the body holds, for each metric m, one clause of each of
\* the three kinds per occurrence of m in the list (exactly one of each
\* when the names are distinct), under the names the flattener looks up.
C11_OneClausePerOccurrence ==
    \A r \in Requests :
        /\ Unfiltered(r) =>
              \A k \in 1..Len(Requested(r)) :
                  HoldsClauses(r.body, Requested(r)[k],
                               Times(Requested(r), Requested(r)[k]))
        /\ (Unfiltered(r) /\ Finished(r) /\ is_defined(r.reply)) =>
              r.pc = "done" /\ LookedUp(r)

\* an unfiltered request for two distinct metrics, answered with statistics
C11_Witness ==
    \E r \in Requests :
        /\ Unfiltered(r)
        /\ StatsAnswered(r)
        /\ Len(Requested(r)) = 2
        /\ Requested(r)[1] # Requested(r)[2]
        /\ HoldsClauses(r.body, Requested(r)[1], 1)
        /\ Has(r.sent[1][1], "statistics") /\ Has(r.sent[1][2], "statistics")

\* the entries of an answered request whose metric has no hit
EmptyEntries(r) ==
    {k \in 1..Len(Requested(r)) : HitCount(r, Requested(r)[k]) = 0}

\* C12 as stated: the entry for a metric whose Minimum_<m> hit count is
\* zero names the metric m together with the error 'response is empty for
\* the metric', and has no statistics, min or max.
C12_EmptyEntryNamesMetric ==
    \A r \in Requests :
        StatsAnswered(r) =>
            \A k \in EmptyEntries(r) :
                LET entry == r.sent[1][k]
                IN  /\ Has(entry, "metric")
                    /\ entry.metric = Requested(r)[k]
                    /\ Has(entry, "error")
                    /\ entry.error = "response is empty for the metric"
                    /\ DOMAIN entry \cap {"statistics", "min", "max"} = {}

\* C12, amended: the entry for a metric whose Minimum_<m> hit count is zero
\* is the error 'response is empty for the metric' alone: it names no
\* metric and has no statistics, min or max.
C12_EmptyEntryIsErrorAlone ==
    \A r \in Requests :
        StatsAnswered(r) =>
            \A k \in EmptyEntries(r) :
                /\ DOMAIN r.sent[1][k] = {"error"}
                /\ r.sent[1][k].error = "response is empty for the metric"

\* a single metric without hits, answered
C12_Witness ==
    \E r \in Requests :
        /\ StatsAnswered(r)
        /\ typeof(r.metric) = "string"
        /\ EmptyEntries(r) = {1}
        /\ Len(r.sent[1]) = 1
        /\ Has(r.sent[1][1], "error")

\* a list request answered with the mapping built from the hits
Listed(r) ==
    /\ r.ep = "list"
    /\ r.pc = "done"
    /\ Len(r.calls) = 2
    /\ r.errors = <<>>

\* C13: GET /workflows answers with a mapping in which every workflow id
\* maps to an object holding the href of that workflow's resource.
C13_WorkflowListHoldsHrefs ==
    \A r \in Requests :
        (mounted = "workflows" /\ Listed(r)) =>
            \A id \in DOMAIN r.sent[1] :
                /\ Has(r.sent[1][id], "href")
                /\ r.sent[1][id].href = MfServer \o "/mf/workflows/" \o id

\* a list request whose searches all came back without an error
ListAnswered(r) ==
    /\ r.ep = "list"
    /\ r.pc = "done"
    /\ r.errors = <<>>

\* the 404 answer of an empty collection, as the handlers word it
NoneFoundAnswer ==
    IF mounted = "configs" THEN [error |-> "No configurations found."]
                           ELSE [error |-> "No workflows found."]

\* a list request answered with 404 and the message of an empty collection
Answered404(r) == r.status = 404 /\ r.sent = <<NoneFoundAnswer>>

\* the count search of an answered list request reported a total of zero
CountedZero(r) == r.size = 0

\* the document as the workflows list shows it: its tasks, when it has
\* any, replaced by their names
TasksByName(source) ==
    IF Has(source, "tasks")
    THEN [source EXCEPT !.tasks = [k \in DOMAIN source.tasks |->
                                      Str(source.tasks[k].name)]]
    ELSE source

Indexing == {i \in DOMAIN req : req[i].ep = "put" /\ req[i].pc = "index"}

\* the identifiers whose document differs between two contents of the store
Changed(before, after) ==
    {k \in DOMAIN before \cup DOMAIN after :
        \/ k \notin DOMAIN before
        \/ k \notin DOMAIN after
        \/ before[k] # after[k]}

\* a step in which the store applies the index call of PUT request i:
\* the call returns and the store holds its body under its identifier
Applies(i) ==
    /\ i \in Indexing
    /\ req'[i].pc = "done"
    /\ req[i].id \in DOMAIN store'
    /\ store'[req[i].id] = req[i].body

\* every change of the store is the index call of one PUT, which leaves the
\* body of that PUT under its lower-cased identifier and nothing else changed
LastIndexWins ==
    Changed(store, store') # {} =>
        \E i \in Indexing :
            /\ Applies(i)
            /\ req[i].id = toLowerCase(req[i].raw)
            /\ Changed(store, store') = {req[i].id}

\* an index call that returns without an error has been applied, whatever
\* other PUT to the same identifier is still with the store
IndexApplied ==
    \A i \in Indexing :
        (req'[i].pc = "done" /\ req'[i].errors = <<>>) => Applies(i)

\* a GET that found its document answers with the body the store holds
\* under the lower-cased identifier
GetReadsStore ==
    \A r \in Requests :
        (r.ep = "get" /\ r.pc = "done" /\ r.errors = <<>>
            /\ toLowerCase(r.raw) \in DOMAIN store)
        => r.sent = <<store[toLowerCase(r.raw)]>>

\* C15: of two overlapping PUTs to one identifier (compared lower-cased),
\* the store holds the body of the index call it applied last, in whichever
\* order it applies them, and a later GET of that identifier in any letter
\* case answers with that body.
C15_LastAppliedPutIsRead ==
    /\ [][LastIndexWins /\ IndexApplied]_vars
    /\ []GetReadsStore

\* two PUTs to one identifier, written in different letter case and with
\* different bodies, overlapped: one is applied and answered while the
\* other's index call is still with the store
C15_Witness ==
    \E i, j \in DOMAIN req :
        /\ req[i].ep = "put" /\ req[i].pc = "done" /\ req[i].errors = <<>>
        /\ req[j].ep = "put" /\ req[j].pc = "index"
        /\ req[i].raw # req[j].raw
        /\ req[i].id = req[j].id
        /\ req[i].body # req[j].body
        /\ store[req[i].id] = req[i].body

\* the number of times a request has been completed: JSON responses sent
\* and errors handed to next()
Completions(r) == Len(r.sent) + Len(r.nexted)

\* C16: whatever the store calls return (success, not found, failure with
\* no response object), a request is completed exactly once: its handler
\* ends having sent one JSON response or handed one error to next(), never
\* both and never neither.
C16_CompletedExactlyOnce ==
    \A r \in Requests :
        r.pc # "idle" =>
            /\ Completions(r) <= 1
            /\ Finished(r) => Completions(r) = 1

\* C17: a list request answered with the mapping holds every document that
\* was in the collection when the request was received, also when a PUT
\* adds an identifier between the count search and the sized search.
C17_ListHoldsDocumentsAtReceipt ==
    \A r \in Requests :
        Listed(r) => r.present \subseteq DOMAIN r.sent[1]

====
